---- MODULE Spec2Model ----
(***************************************************************************)
(* SubtitleParser of home/src/index/video.py (lines 145-243).              *)
(*                                                                         *)
(* Text is a sequence of tokens.  A token is one character-like atom of    *)
(* the subtitle string: the newline, the blank, the " --> " arrow, one     *)
(* HH:MM:SS.mmm timestamp, one <HH:MM:SS.mmm> inline stamp, one <c> or     *)
(* </c> tag, or one word of caption text.  str.split, str.replace and the  *)
(* three regular expressions are computed on these sequences.              *)
(*                                                                         *)
(* A cue dict is a record; a key the dict does not hold has the value      *)
(* NoKey ("id": 0).  parsed_cue_list owns the dicts; `matched` holds       *)
(* references to them, modelled as indexes into parsed_cue_list, so that   *)
(* a write through one reference is seen through every other one.          *)
(*                                                                         *)
(* __init__ sets header, parsed_cue_list, all_text_lines and matched to    *)
(* False; an attribute not yet assigned holds the empty value here, and pc *)
(* tells which assignments have run.                                       *)
(***************************************************************************)
EXTENDS Integers, Sequences, FiniteSets, TLC

VARIABLES
    subtitle_str,      \* self.subtitle_str
    header,            \* self.header
    parsed_cue_list,   \* self.parsed_cue_list
    all_text_lines,    \* self.all_text_lines
    matched,           \* self.matched (references into parsed_cue_list)
    new_subtitle_str,  \* the value get_subtitle_str() returned
    resplit,           \* a second parser's state after _parse_cues on that value
    pc                 \* position in process() and after it

vars == <<subtitle_str, header, parsed_cue_list, all_text_lines, matched,
          new_subtitle_str, resplit, pc>>

-----------------------------------------------------------------------------
(* Bounds of the inputs.                                                    *)

MaxCues == 3
MaxRoll == 5

-----------------------------------------------------------------------------
(* Tokens.                                                                  *)

NL == "\n"
SP == " "
Arrow == " --> "
NoKey == "<no key>"

Clock ==
    << "00:00:01.000", "00:00:02.000", "00:00:03.000", "00:00:04.000",
       "00:00:05.000", "00:00:06.000", "00:00:07.000", "00:00:08.000",
       "00:00:09.000", "00:00:10.000", "00:00:11.000", "00:00:12.000",
       "00:00:13.000", "00:00:14.000" >>

TimeAtoms == {Clock[i] : i \in DOMAIN Clock}
StampAtoms == {"<00:00:01.500>"}
TagAtoms == {"<c>", "</c>"}

Range(s) == {s[i] : i \in DOMAIN s}
Min(S) == CHOOSE x \in S : \A y \in S : x <= y

RECURSIVE Flatten(_)
Flatten(ss) == IF ss = <<>> THEN <<>> ELSE Head(ss) \o Flatten(Tail(ss))

RECURSIVE Join(_, _)
Join(ss, sep) ==
    IF ss = <<>> THEN <<>>
    ELSE IF Len(ss) = 1 THEN Head(ss)
    ELSE Head(ss) \o sep \o Join(Tail(ss), sep)

-----------------------------------------------------------------------------
(* str.replace("\n \n", "\n") and str.split.                                *)

RECURSIVE ReplaceBlankLine(_)
ReplaceBlankLine(s) ==
    LET hits == {i \in 1..(Len(s) - 2) :
                    s[i] = NL /\ s[i + 1] = SP /\ s[i + 2] = NL}
    IN  IF hits = {} THEN s
        ELSE LET i == Min(hits)
             IN  SubSeq(s, 1, i - 1) \o <<NL>>
                    \o ReplaceBlankLine(SubSeq(s, i + 3, Len(s)))

RECURSIVE SplitCues(_)
SplitCues(s) ==
    LET hits == {i \in 1..(Len(s) - 1) : s[i] = NL /\ s[i + 1] = NL}
    IN  IF hits = {} THEN <<s>>
        ELSE LET i == Min(hits)
             IN  <<SubSeq(s, 1, i - 1)>> \o SplitCues(SubSeq(s, i + 2, Len(s)))

RECURSIVE SplitLines(_)
SplitLines(s) ==
    LET hits == {i \in 1..Len(s) : s[i] = NL}
    IN  IF hits = {} THEN <<s>>
        ELSE LET i == Min(hits)
             IN  <<SubSeq(s, 1, i - 1)>> \o SplitLines(SubSeq(s, i + 1, Len(s)))

-----------------------------------------------------------------------------
(* The regular expressions.                                                 *)

\* re.match(time_reg, line): the line starts with "<time> --> <time>".
TimeRegMatch(line) ==
    /\ Len(line) >= 3
    /\ line[1] \in TimeAtoms
    /\ line[2] = Arrow
    /\ line[3] \in TimeAtoms

\* re.sub(stamp_reg, "", line)
SubStamp(line) == SelectSeq(line, LAMBDA t : t \notin StampAtoms)

\* re.sub(tag_reg, "", line)
SubTag(line) == SelectSeq(line, LAMBDA t : t \notin TagAtoms)

\* clean.strip() is a non-empty string
StripTruthy(line) == \E i \in DOMAIN line : line[i] \notin {SP, NL}

\* int(re.sub("[^0-9]", "", ts)): the nine digits of a timestamp, as a number
TsInt(ts) ==
    LET i == CHOOSE j \in DOMAIN Clock : Clock[j] = ts
    IN  i * 1000

-----------------------------------------------------------------------------
(* _cue_cleaner and _parse_cues.                                            *)

DedupWindow == 4

\* A window one line short: self.all_text_lines[-3:]
LastLinesShort(q) ==
    IF Len(q) < DedupWindow THEN q ELSE SubSeq(q, Len(q) - DedupWindow + 2, Len(q))

\* self.all_text_lines[-4:]
LastLines(q) ==
    IF Len(q) <= DedupWindow THEN q ELSE SubSeq(q, Len(q) - DedupWindow + 1, Len(q))

EmptyCue == [lines |-> <<>>, start |-> NoKey, end |-> NoKey, id |-> 0]

\* The line queued as it was read, before its markup is stripped.
CleanLineRaw(st, line) ==
    IF TimeRegMatch(line)
    THEN [cue |-> [st.cue EXCEPT !.start = line[1], !.end = line[3]], q |-> st.q]
    ELSE LET clean == SubTag(SubStamp(line))
         IN  [cue |-> [st.cue EXCEPT !.lines = Append(@, clean)],
              q   |-> IF StripTruthy(line) /\ line \notin Range(LastLines(st.q))
                      THEN Append(st.q, line)
                      ELSE st.q]

\* One turn of the loop over the lines of a cue, on the pair (cue_dict, queue).
CleanLine(st, line) ==
    IF TimeRegMatch(line)
    THEN [cue |-> [st.cue EXCEPT !.start = line[1], !.end = line[3]], q |-> st.q]
    ELSE LET clean == SubTag(SubStamp(line))
         IN  [cue |-> [st.cue EXCEPT !.lines = Append(@, clean)],
              q   |-> IF StripTruthy(clean) /\ clean \notin Range(LastLines(st.q))
                      THEN Append(st.q, clean)
                      ELSE st.q]

RECURSIVE CleanLines(_, _)
CleanLines(st, lines) ==
    IF lines = <<>> THEN st
    ELSE CleanLines(CleanLine(st, Head(lines)), Tail(lines))

\* _cue_cleaner(cue) with self.all_text_lines = q: the cue dict and the queue after.
CueCleaner(cue, q) == CleanLines([cue |-> EmptyCue, q |-> q], SplitLines(cue))

RECURSIVE CleanCues(_, _, _)
CleanCues(blocks, cues, q) ==
    IF blocks = <<>> THEN [cues |-> cues, q |-> q]
    ELSE LET r == CueCleaner(Head(blocks), q)
         IN  CleanCues(Tail(blocks), Append(cues, r.cue), r.q)

\* _parse_cues on a subtitle string: header, parsed_cue_list, all_text_lines.
ParseResult(str) ==
    LET all_cues == SplitCues(ReplaceBlankLine(str))
        r == CleanCues(Tail(all_cues), <<>>, <<>>)
    IN  [header |-> Head(all_cues), cues |-> r.cues, q |-> r.q]

-----------------------------------------------------------------------------------------------------------------------------------------------------
(* The inputs: subtitle strings in the shape YouTube serves them.           *)

\* The spoken lines of a video, one of them recurring after more than
\* DedupWindow other lines.
Transcript == <<"k", "x", "a", "b", "c", "d", "x">>

Windows == {w \in (DOMAIN Transcript) \X (DOMAIN Transcript) : w[1] <= w[2]}

ShortWindows == {w \in Windows : w[2] <= 2}

WindowLines(w) == [i \in 1..(w[2] - w[1] + 1) |-> <<Transcript[w[1] + i - 1]>>]

Settings == " align:start position:0%"

\* The last line of an auto-generated cue carries word timing markup.
MarkUp(lines) ==
    [i \in DOMAIN lines |->
        IF i = Len(lines) THEN lines[i] \o <<"<00:00:01.500>", "<c>", "</c>">>
        ELSE lines[i]]

\* Cue block i of an input, showing `lines`: "timed" is a timestamp line and
\* the lines, "untimed" the lines alone, "auto" the block of an
\* auto-generated caption (cue settings, a blank-only line, markup).
Block(i, lines, kind) ==
    CASE kind = "timed" ->
            <<Clock[i], Arrow, Clock[i + Len(lines)], NL>> \o Join(lines, <<NL>>)
      [] kind = "untimed" -> Join(lines, <<NL>>)
      [] kind = "auto" ->
            <<Clock[i], Arrow, Clock[i + Len(lines)], Settings, NL, SP, NL>>
                \o Join(MarkUp(lines), <<NL>>)

RenderInput(blocks) == Flatten([i \in 1..(Len(blocks) + 1) |->
    IF i = 1 THEN <<"WEBVTT">> ELSE <<NL, NL>> \o blocks[i - 1]])

\* Captions rolling forward through the transcript: cue i shows a window of
\* it, and no window starts or ends before the one in front of it.
RollingForward(n) ==
    {f \in [1..n -> Windows] :
        \A i \in 1..(n - 1) : f[i][1] <= f[i + 1][1] /\ f[i][2] <= f[i + 1][2]}

WindowInputs ==
    UNION { { RenderInput([i \in 1..n |-> Block(i, WindowLines(ws[i]), "timed")]) :
                ws \in RollingForward(n) } : n \in 0..MaxCues }

\* Short cues in any order, of every kind.
Kinds == {"timed", "untimed", "auto"}

MixedInputs ==
    UNION { { RenderInput([i \in 1..n |-> Block(i, WindowLines(c[i][1]), c[i][2])]) :
                c \in [1..n -> ShortWindows \X Kinds] } : n \in 0..MaxCues }

\* A refrain "x" shown by cue after cue, some of them adding a new line of
\* their own before or after it.
NewLines == <<"n1", "n2", "n3", "n4", "n5", "n6", "n7">>

RefrainLines(i, shape) ==
    CASE shape = "refrain" -> << <<"x">> >>
      [] shape = "refrain+new" -> << <<"x">>, <<NewLines[i]>> >>
      [] shape = "new+refrain" -> << <<NewLines[i]>>, <<"x">> >>
      [] shape = "new" -> << <<NewLines[i]>> >>

Shapes == {"refrain", "refrain+new", "new+refrain", "new"}

RefrainInputs ==
    UNION { { RenderInput([i \in 1..n |-> Block(i, RefrainLines(i, sh[i]), "timed")]) :
                sh \in [1..n -> Shapes] } : n \in MaxRoll..MaxRoll }

Inputs == {<<>>} \cup WindowInputs \cup MixedInputs \cup RefrainInputs

-----------------------------------------------------------------------------

\* SubtitleParser(subtitle_str, lang)
Init ==
    /\ subtitle_str \in Inputs
    /\ header = <<>>
    /\ parsed_cue_list = <<>>
    /\ all_text_lines = <<>>
    /\ matched = <<>>
    /\ new_subtitle_str = <<>>
    /\ resplit = [header |-> <<>>, parsed_cue_list |-> <<>>, all_text_lines |-> <<>>]
    /\ pc = "parse_cues"

\* self._parse_cues()
ParseCues ==
    /\ pc = "parse_cues"
    /\ LET r == ParseResult(subtitle_str)
       IN  /\ header' = r.header
           /\ parsed_cue_list' = r.cues
           /\ all_text_lines' = r.q
    /\ pc' = "match_text_lines"
    /\ UNCHANGED <<subtitle_str, matched, new_subtitle_str, resplit>>

\* _match_text_lines, up to the loop: self.matched = []
MatchTextLines ==
    /\ pc = "match_text_lines"
    /\ matched' = <<>>
    /\ pc' = "match_loop"
    /\ UNCHANGED <<subtitle_str, header, parsed_cue_list, all_text_lines,
                   new_subtitle_str, resplit>>

\* [i for i in self.parsed_cue_list if check in i["lines"]], as references
Matches(cues, check) ==
    SelectSeq([i \in 1..Len(cues) |-> i], LAMBDA i : check \in Range(cues[i].lines))

\* remove() called on a copy of the queue: self.all_text_lines[:].remove(line)
RemoveLineFromCopy(q, line) == q

\* self.all_text_lines.remove(line), a ValueError swallowed
RemoveLine(q, line) ==
    LET hits == {i \in DOMAIN q : q[i] = line}
    IN  IF hits = {} THEN q
        ELSE LET i == Min(hits)
             IN  SubSeq(q, 1, i - 1) \o SubSeq(q, i + 1, Len(q))

\* The loop left at the first ValueError: break for continue.
RECURSIVE RemoveLinesBreak(_, _)
RemoveLinesBreak(q, lines) ==
    IF lines = <<>> \/ Head(lines) \notin Range(q) THEN q
    ELSE RemoveLinesBreak(RemoveLine(q, Head(lines)), Tail(lines))

\* for line in new_cue["lines"]: remove it from the queue
RECURSIVE RemoveLines(_, _)
RemoveLines(q, lines) ==
    IF lines = <<>> THEN q
    ELSE RemoveLines(RemoveLine(q, Head(lines)), Tail(lines))

\* One turn of the while loop of _match_text_lines.  matches[-1] of an empty
\* list is an IndexError, matches[0]["start"] of a cue without timestamp
\* line a KeyError: either ends process().
MatchStep ==
    /\ pc = "match_loop"
    /\ all_text_lines # <<>>
    /\ LET check == all_text_lines[1]
           matches == Matches(parsed_cue_list, check)
       IN  IF matches = <<>> \/ parsed_cue_list[matches[1]].start = NoKey
           THEN /\ pc' = "raised"
                /\ UNCHANGED <<parsed_cue_list, all_text_lines, matched>>
           ELSE LET new_cue == matches[Len(matches)]
                IN  /\ parsed_cue_list' =
                          [parsed_cue_list EXCEPT
                              ![new_cue].start = parsed_cue_list[matches[1]].start]
                    /\ all_text_lines' =
                          RemoveLines(all_text_lines, parsed_cue_list[new_cue].lines)
                    /\ matched' = Append(matched, new_cue)
                    /\ pc' = "match_loop"
    /\ UNCHANGED <<subtitle_str, header, new_subtitle_str, resplit>>

RECURSIVE SetIds(_, _, _)
SetIds(cues, m, idx) ==
    IF idx >= Len(m) THEN cues
    ELSE SetIds([cues EXCEPT ![m[idx + 1]].id = idx + 1], m, idx + 1)

\* self._add_id(), once the loop of _match_text_lines has ended
AddId ==
    /\ pc = "match_loop"
    /\ all_text_lines = <<>>
    /\ parsed_cue_list' = SetIds(parsed_cue_list, matched, 0)
    /\ pc' = "timestamp_check"
    /\ UNCHANGED <<subtitle_str, header, all_text_lines, matched,
                   new_subtitle_str, resplit>>

\* A comparison the wrong way round.
OverlapsReversed(end, start_next) == TsInt(end) < TsInt(start_next)

\* end > start_next
Overlaps(end, start_next) == TsInt(end) > TsInt(start_next)

\* The loop of _timestamp_check from index idx on: the cue dicts after it, and
\* whether re.sub met a cue without "end" (a TypeError).
RECURSIVE CheckFrom(_, _, _)
CheckFrom(cues, m, idx) ==
    IF idx >= Len(m) THEN [cues |-> cues, raised |-> FALSE]
    ELSE LET cue == cues[m[idx + 1]]
         IN  IF cue.end = NoKey THEN [cues |-> cues, raised |-> TRUE]
             ELSE IF idx + 1 >= Len(m) THEN CheckFrom(cues, m, idx + 1)
             ELSE LET next_cue == cues[m[idx + 2]]
                  IN  IF Overlaps(cue.end, next_cue.start)
                      THEN CheckFrom([cues EXCEPT ![m[idx + 1]].end = next_cue.start],
                                     m, idx + 1)
                      ELSE CheckFrom(cues, m, idx + 1)

\* self._timestamp_check()
TimestampCheck ==
    /\ pc = "timestamp_check"
    /\ LET r == CheckFrom(parsed_cue_list, matched, 0)
       IN  /\ parsed_cue_list' = r.cues
           /\ pc' = IF r.raised THEN "raised" ELSE "done"
    /\ UNCHANGED <<subtitle_str, header, all_text_lines, matched,
                   new_subtitle_str, resplit>>

\* A cue written without its id line.
CueTextNoId(cue) ==
    <<cue.start, Arrow, cue.end, NL>> \o Join(cue.lines, <<NL>>) \o <<NL, NL>>

\* The text of one matched cue in get_subtitle_str.
CueText(cue) ==
    <<ToString(cue.id), NL, cue.start, Arrow, cue.end, NL>>
        \o Join(cue.lines, <<NL>>) \o <<NL, NL>>

SubtitleStr(hdr, cues, m) ==
    hdr \o <<NL, NL>> \o Flatten([i \in 1..Len(m) |-> CueText(cues[m[i]])])

\* get_subtitle_str() after process()
GetSubtitleStr ==
    /\ pc = "done"
    /\ new_subtitle_str' = SubtitleStr(header, parsed_cue_list, matched)
    /\ pc' = "serialized"
    /\ UNCHANGED <<subtitle_str, header, parsed_cue_list, all_text_lines,
                   matched, resplit>>

\* SubtitleParser(new_subtitle_str, lang)._parse_cues()
Resplit ==
    /\ pc = "serialized"
    /\ LET r == ParseResult(new_subtitle_str)
       IN  resplit' = [header |-> r.header, parsed_cue_list |-> r.cues,
                       all_text_lines |-> r.q]
    /\ pc' = "resplit"
    /\ UNCHANGED <<subtitle_str, header, parsed_cue_list, all_text_lines,
                   matched, new_subtitle_str>>

Next ==
    \/ ParseCues
    \/ MatchTextLines
    \/ MatchStep
    \/ AddId
    \/ TimestampCheck
    \/ GetSubtitleStr
    \/ Resplit

Spec == Init /\ [][Next]_vars

-----------------------------------------------------------------------------
(* Properties.                                                              *)

\* matched[i], read through the reference
Cue(i) == parsed_cue_list[matched[i]]

\* Every parsed cue block has a timestamp line ("end" is set by that line alone).
EveryCueTimed == \A i \in DOMAIN parsed_cue_list : parsed_cue_list[i].end # NoKey

Returned == pc \in {"done", "serialized", "resplit"}
Aligned == (pc = "match_loop" /\ all_text_lines = <<>>) \/ pc = "timestamp_check" \/ Returned

\* The cue list and the queue as _parse_cues left them.
AsParsed == ParseResult(subtitle_str)

Count(q, line) == Cardinality({i \in DOMAIN q : q[i] = line})

Holders(line) == {i \in DOMAIN matched : line \in Range(Cue(i).lines)}

\* C1: after process() on an input whose cue blocks all have a timestamp
\* line, every adjacent pair of matched has end[i] <= start[i+1], compared as
\* integers, also when one source cue sits at several positions of matched.
C1_NoOverlap ==
    (Returned /\ EveryCueTimed) =>
        \A i \in 1..(Len(matched) - 1) : TsInt(Cue(i).end) <= TsInt(Cue(i + 1).start)

\* One cue at two positions of matched, and an end the pass has overwritten.
C1_Witness ==
    /\ pc = "done"
    /\ EveryCueTimed
    /\ \E i, j \in DOMAIN matched : i < j /\ matched[i] = matched[j]
    /\ \E i \in 1..(Len(matched) - 1) :
          /\ Cue(i).end = Cue(i + 1).start
          /\ Cue(i).end # AsParsed.cues[matched[i]].end

\* C2: after process(), the ids of matched read in order are 1, 2, ..., N.
C2_IdsContiguous ==
    Returned => \A i \in DOMAIN matched : Cue(i).id = i

\* C3: after _match_text_lines, matched has as many entries as _parse_cues
\* accepted lines into the queue.
C3_OnePerLine ==
    Aligned => Len(matched) = Len(AsParsed.q)

\* Scenario A: cue 1 shows one line, cue 2 the same line and a second one.
ScenarioA ==
    RenderInput(<< Block(1, WindowLines(<<1, 1>>), "timed"),
                   Block(2, WindowLines(<<1, 2>>), "timed") >>)

\* C3 as amended: the cues emitted and the lines still pending never
\* outnumber the lines accepted, so after _match_text_lines matched has at
\* most as many entries as lines were accepted, and at least one if any was;
\* on Scenario A the queue held 2 lines and matched holds 1 cue.
C3_AtMostOnePerLine ==
    /\ pc \in {"match_loop", "timestamp_check", "done"} =>
          Len(matched) + Len(all_text_lines) <= Len(AsParsed.q)
    /\ Aligned =>
          /\ Len(matched) <= Len(AsParsed.q)
          /\ (AsParsed.q # <<>> => Len(matched) >= 1)
          /\ (subtitle_str = ScenarioA => Len(AsParsed.q) = 2 /\ Len(matched) = 1)

C3_Witness ==
    /\ pc = "timestamp_check"
    /\ subtitle_str = ScenarioA
    /\ Len(matched) < Len(AsParsed.q)

\* The non-blank lines that five consecutive cue blocks all show.
InFiveCues ==
    {x \in UNION {Range(parsed_cue_list[i].lines) : i \in DOMAIN parsed_cue_list} :
        /\ StripTruthy(x)
        /\ \E i \in 1..(Len(parsed_cue_list) - 4) :
              \A j \in i..(i + 4) : x \in Range(parsed_cue_list[j].lines)}

\* C4: a non-blank line shown unchanged by 5 consecutive cue blocks is in the
\* queue built by _parse_cues exactly once.
C4_RefrainOnce ==
    pc = "match_text_lines" => \A x \in InFiveCues : Count(all_text_lines, x) = 1

\* C4 as amended: such a line is in the queue at least once, and any two of
\* its places in the queue have at least four other entries between them.
C4_RefrainWindow ==
    pc = "match_text_lines" =>
        \A x \in InFiveCues :
            /\ Count(all_text_lines, x) >= 1
            /\ \A i, j \in DOMAIN all_text_lines :
                  (i < j /\ all_text_lines[i] = x /\ all_text_lines[j] = x)
                      => j - i > DedupWindow

C4_Witness ==
    /\ pc = "match_text_lines"
    /\ \E x \in InFiveCues : Count(all_text_lines, x) = 2

\* A text line that _cue_cleaner would read back as it stands: not a
\* timestamp line, and with no markup left in it.
ReadsBack(line) == ~TimeRegMatch(line) /\ SubTag(SubStamp(line)) = line

\* Each matched cue carries one text line, and the lines differ pairwise.
OneLineEach ==
    /\ \A i \in DOMAIN matched : Len(Cue(i).lines) = 1
    /\ \A i, j \in DOMAIN matched : i # j => Cue(i).lines # Cue(j).lines

Content(cue) == [start |-> cue.start, end |-> cue.end, lines |-> cue.lines]

C6_NeverRaises == pc # "raised"

\* The earliest start, as parsed, among the cues showing `line`.
EarliestStart(line) ==
    Min({TsInt(AsParsed.cues[i].start) :
            i \in {j \in DOMAIN AsParsed.cues :
                      line \in Range(AsParsed.cues[j].lines)
                      /\ AsParsed.cues[j].start # NoKey}})

\* C7: the cue that a turn of the loop emits for the pending line L starts
\* at the earliest start, as parsed, among the source cues showing L.
C7_EarliestStart ==
    [][(pc = "match_loop" /\ pc' = "match_loop" /\ matched' # matched) =>
          TsInt(parsed_cue_list'[matched'[Len(matched')]].start)
              = EarliestStart(all_text_lines[1])]_vars

\* C8: a line accepted into the queue exactly once is, after alignment, in the
\* lines of exactly one entry of matched (stated here for the inputs whose cue
\* blocks all have a timestamp line, on which process() does not raise).
C8_LineInOneCue ==
    (Aligned /\ EveryCueTimed) =>
        \A x \in Range(AsParsed.q) :
            Count(AsParsed.q, x) = 1 => Cardinality(Holders(x)) = 1

\* C9: on an input whose cue blocks all have a timestamp line, a step taken
\* inside the loop is either a turn that takes the head line out of the queue,
\* leaving it shorter, with no more turns taken than lines were accepted, or
\* the exit on the empty queue; no turn raises.  The queue length is thus a
\* variant of the loop, which ends with the queue empty.
C9_LoopTerminates ==
    [][(pc = "match_loop" /\ EveryCueTimed) =>
          \/ /\ pc' = "match_loop"
             /\ Len(all_text_lines') < Len(all_text_lines)
             /\ Count(all_text_lines', Head(all_text_lines))
                   < Count(all_text_lines, Head(all_text_lines))
             /\ Len(matched') = Len(matched) + 1
             /\ Len(matched') <= Len(AsParsed.q)
          \/ /\ pc' = "timestamp_check"
             /\ all_text_lines = <<>>]_vars

C9_Witness ==
    /\ pc = "timestamp_check"
    /\ EveryCueTimed
    /\ Len(matched) >= 3

\* C10: from the end of _parse_cues through every turn of the loop, each
\* pending line is among the lines of some cue of parsed_cue_list.
C10_NoOrphan ==
    pc \in {"match_text_lines", "match_loop"} =>
        \A i \in DOMAIN all_text_lines :
            Matches(parsed_cue_list, all_text_lines[i]) # <<>>

C10_Witness ==
    /\ pc = "match_loop"
    /\ matched # <<>>
    /\ Len(all_text_lines) >= 2

====
